---- MODULE Spec2Model ----
(***************************************************************************)
(* State-machine model of server/server.py: the FastAPI application with   *)
(* its engine registry, the startup hook, the /health endpoint and the     *)
(* /ws/stt WebSocket handler (one handler task per connection, all tasks   *)
(* multiplexed on one asyncio event loop).                                 *)
(*                                                                         *)
(* One action is one run of a handler task between two suspension points   *)
(* (await): the event loop never interleaves anything inside it.           *)
(***************************************************************************)
EXTENDS Integers, Sequences, FiniteSets, TLC

\* ------------------------------------------------------------------ bounds

\* Frames (text or binary) all clients together put on the wire.
MaxFrames == 4

\* Clock ticks one idle wait for a frame is followed for.
MaxWait == 2

\* Frames the transport holds for one connection before the client has to wait.
MaxInbox == 1

\* ------------------------------------------------------------- the clients

\* The connections the server is offered.
Sessions == {"s1", "s2"}

\* Python's None.
None == "None"

\* Payloads of the text frames a client sends: an object with a speaker, an
\* object without one, valid JSON that is no object, and text that is no JSON.
TextPayloads == {"{\"speaker\":\"alice\"}", "{}", "[]", "{oops"}

\* Byte lengths of the binary frames a client sends.
AudioLens == {0, 1000}

TextFrame(p) == [kind |-> "text", text |-> p, nbytes |-> 0]
BytesFrame(n) == [kind |-> "bytes", text |-> "", nbytes |-> n]
DisconnectMsg == [kind |-> "disconnect", text |-> "", nbytes |-> 0]

\* ---------------------------------------------------------------- the state

VARIABLES
    models,        \* the engine registry (module global)
    started,       \* the startup hook has run
    health,        \* the last answer of GET /health, NoAnswer before the first
    pc,            \* per session: where its handler task is suspended
    inbox,         \* per session: messages the transport holds for receive()
    gone,          \* per session: the connection is closed
    metadata,      \* per session: the handler's local `metadata`
    audio_bytes,   \* per session: len() of the handler's local `audio_bytes`
    sent,          \* per session: the frames send_json() has put on the wire
    exit,          \* per session: how the handler left its loop
    timers,        \* the event loop's pending asyncio.sleep timers, in order
    cycles,        \* per session: text frames received as metadata
    data_str,      \* per session: the handler's local `data_str`
    nframes,       \* frames the clients have sent so far
    waited,        \* per session: ticks the current wait for metadata has lasted
    overlap        \* per session: what happened while it was processing

vars == <<models, started, health, pc, inbox, gone, metadata, audio_bytes, sent,
          exit, timers, cycles, data_str, nframes, waited, overlap>>

\* ------------------------------------------------------------ pure helpers

\* json.loads(data_str): the parsed value, or the JSONDecodeError it raises.
json_loads_objects_only(str) ==
    CASE str = "{\"speaker\":\"alice\"}" ->
            [ok |-> TRUE, type |-> "dict", keys |-> {"speaker"}, speaker |-> "alice", err |-> ""]
      [] str = "{}" ->
            [ok |-> TRUE, type |-> "dict", keys |-> {}, speaker |-> "", err |-> ""]
      [] OTHER ->
            [ok |-> FALSE, type |-> "", keys |-> {}, speaker |-> "",
             err |-> "metadata must be a JSON object"]
json_loads(str) ==
    CASE str = "{\"speaker\":\"alice\"}" ->
            [ok |-> TRUE, type |-> "dict", keys |-> {"speaker"}, speaker |-> "alice", err |-> ""]
      [] str = "{}" ->
            [ok |-> TRUE, type |-> "dict", keys |-> {}, speaker |-> "", err |-> ""]
      [] str = "[]" ->
            [ok |-> TRUE, type |-> "list", keys |-> {}, speaker |-> "", err |-> ""]
      [] OTHER ->
            [ok |-> FALSE, type |-> "", keys |-> {}, speaker |-> "",
             err |-> "Expecting property name enclosed in double quotes: line 1 column 2 (char 1)"]

\* How a handler left its loop: by which handler (how), raised by which call
\* (at), as which exception (exc). Running: it has not.
Running == [how |-> "running", at |-> "", exc |-> ""]

\* No GET /health has been answered yet.
NoAnswer == [status |-> "", message |-> "", models |-> <<>>]

\* The handler's `metadata` before the first assignment.
NoMetadata == [ok |-> FALSE, type |-> "", keys |-> {}, speaker |-> "", err |-> ""]

\* metadata.get("speaker", "unknown") on a dict.
get_speaker_default_only(m) == "unknown"
get_speaker(m) == IF "speaker" \in m.keys THEN m.speaker ELSE "unknown"

\* f"Server processed {len(audio_bytes)} bytes of audio."
final_text_fixed_length(n) == "Server processed 0 bytes of audio."
final_text(n) == "Server processed " \o ToString(n) \o " bytes of audio."

\* The mock response of one cycle.
response_requires_engine(m, n) ==
    IF \A k \in DOMAIN models : models[k] = None
    THEN [type |-> "error", message |-> "STT models are not loaded"]
    ELSE [type |-> "ensemble_result",
          data |-> [finalText |-> final_text(n), speaker |-> get_speaker(m)]]
response(m, n) ==
    [type |-> "ensemble_result",
     data |-> [finalText     |-> final_text(n),
               senseVoice    |-> "SenseVoice prediction",
               fasterWhisper |-> "Faster-Whisper prediction",
               qwenASR       |-> "Qwen3-ASR prediction",
               speaker       |-> get_speaker(m),
               confidence    |-> "0.95",
               events        |-> <<>>]]

\* The frame of the generic exception handler.
error_frame_without_message(msg) == [type |-> "error", code |-> "processing_error"]
error_frame(msg) == [type |-> "error", code |-> "processing_error", message |-> msg]

\* -------------------------------------------------------------- the loop

\* The suspension points at which a handler task keeps the event loop's thread
\* instead of yielding it. Every wait of the handler is an `await`
\* (receive_text, receive_bytes, asyncio.sleep, send_json): none does.
BlockingWaitsSyncSleep == {"sleep"}
BlockingWaits == {}

\* The event loop can run a step on behalf of `who` (a session, or None for an
\* HTTP request): no other task is holding the thread.
LoopFree(who) == \A t \in Sessions \ {who} : pc[t] \notin BlockingWaits

\* What the sessions that are processing see the loop serve meanwhile.
Served(who, ev) ==
    [a \in Sessions |->
        IF pc[a] = "sleep" /\ a # who THEN overlap[a] \cup {ev} ELSE overlap[a]]

\* ------------------------------------------------------------ the handlers

Init ==
    /\ models = [sensevoice |-> None, faster_whisper |-> None, qwen_asr |-> None]
    /\ started = FALSE
    /\ health = NoAnswer
    /\ pc = [s \in Sessions |-> "idle"]
    /\ inbox = [s \in Sessions |-> <<>>]
    /\ gone = [s \in Sessions |-> FALSE]
    /\ metadata = [s \in Sessions |-> NoMetadata]
    /\ audio_bytes = [s \in Sessions |-> 0]
    /\ sent = [s \in Sessions |-> <<>>]
    /\ exit = [s \in Sessions |-> Running]
    /\ timers = <<>>
    /\ cycles = [s \in Sessions |-> 0]
    /\ data_str = [s \in Sessions |-> ""]
    /\ nframes = 0
    /\ waited = [s \in Sessions |-> 0]
    /\ overlap = [s \in Sessions |-> {}]

\* load_models(): logs only, the registry keeps its three None entries.
load_models == models' = models

\* startup_event(): runs once, before any request is served.
Startup ==
    /\ ~started
    /\ load_models
    /\ started' = TRUE
    /\ UNCHANGED <<health, pc, inbox, gone, metadata, audio_bytes, sent, exit,
                   timers, cycles, data_str, nframes, waited, overlap>>

\* The dict health_check() returns: a constant, the registry is not read.
health_check ==
    [status |-> "healthy",
     message |-> "Ensemble STT Server is running (Simulation Mode)",
     models |-> <<"SenseVoice-Small", "Faster-Whisper", "Qwen3-ASR">>]

\* GET /health answers while the registry is (wrongly) filled on demand.
HealthCheckLazyLoad ==
    /\ started
    /\ LoopFree(None)
    /\ health' = health_check
    /\ models' = [models EXCEPT !.faster_whisper = "WhisperModel"]
    /\ overlap' = Served(None, "health")
    /\ UNCHANGED <<started, pc, inbox, gone, metadata, audio_bytes, sent,
                   exit, timers, cycles, data_str, nframes, waited>>

\* GET /health: a constant answer.
HealthCheck ==
    /\ started
    /\ LoopFree(None)
    /\ health' = health_check
    /\ overlap' = Served(None, "health")
    /\ UNCHANGED <<models, started, pc, inbox, gone, metadata, audio_bytes, sent,
                   exit, timers, cycles, data_str, nframes, waited>>

\* websocket.accept(), then the first receive_text() suspends.
Accept(s) ==
    /\ started
    /\ pc[s] = "idle"
    /\ LoopFree(s)
    /\ pc' = [pc EXCEPT ![s] = "recv_text"]
    /\ UNCHANGED <<models, started, health, inbox, gone, metadata, audio_bytes,
                   sent, exit, timers, cycles, data_str, nframes, waited, overlap>>

\* The handler returns: its locals are dropped, and the server closes the
\* connection and drops whatever the transport still held for it.
ReturnDropsEveryInbox(s) ==
    /\ pc' = [pc EXCEPT ![s] = "done"]
    /\ inbox' = [t \in Sessions |-> <<>>]
    /\ gone' = [gone EXCEPT ![s] = TRUE]
    /\ data_str' = [data_str EXCEPT ![s] = ""]
    /\ metadata' = [metadata EXCEPT ![s] = NoMetadata]
    /\ audio_bytes' = [audio_bytes EXCEPT ![s] = 0]
Return(s) ==
    /\ pc' = [pc EXCEPT ![s] = "done"]
    /\ inbox' = [inbox EXCEPT ![s] = <<>>]
    /\ gone' = [gone EXCEPT ![s] = TRUE]
    /\ data_str' = [data_str EXCEPT ![s] = ""]
    /\ metadata' = [metadata EXCEPT ![s] = NoMetadata]
    /\ audio_bytes' = [audio_bytes EXCEPT ![s] = 0]

\* send_json(frame) puts one frame on the wire.
EmitTwice(s, frame) == sent' = [sent EXCEPT ![s] = Append(Append(@, frame), frame)]
Emit(s, frame) == sent' = [sent EXCEPT ![s] = Append(@, frame)]

\* The handler leaves its loop: `except WebSocketDisconnect` logs and returns.
OnDisconnectAsError(s, at) ==
    /\ Return(s)
    /\ exit' = [exit EXCEPT ![s] = [how |-> "error_swallowed", at |-> at,
                                    exc |-> "WebSocketDisconnect"]]
    /\ sent' = sent
OnDisconnect(s, at) ==
    /\ Return(s)
    /\ exit' = [exit EXCEPT ![s] = [how |-> "disconnect", at |-> at,
                                    exc |-> "WebSocketDisconnect"]]
    /\ sent' = sent

\* The handler leaves its loop: `except Exception` logs, tries to send one error
\* frame and swallows a failure of that send (the peer may be gone).
OnExceptionSendUnguarded(s, at, exc, msg) ==
    /\ Return(s)
    /\ exit' = [exit EXCEPT ![s] = [how |-> IF gone[s] THEN "escaped" ELSE "error_sent",
                                    at |-> at, exc |-> exc]]
    /\ IF gone[s] THEN sent' = sent ELSE Emit(s, error_frame(msg))
OnExceptionContinues(s, at, exc, msg) ==
    /\ pc' = [pc EXCEPT ![s] = "recv_text"]
    /\ inbox' = [inbox EXCEPT ![s] = <<>>]
    /\ UNCHANGED <<gone, data_str, metadata, audio_bytes, exit>>
    /\ IF gone[s] THEN sent' = sent ELSE Emit(s, error_frame(msg))
OnException(s, at, exc, msg) ==
    /\ Return(s)
    /\ exit' = [exit EXCEPT ![s] = [how |-> IF gone[s] THEN "error_swallowed"
                                                     ELSE "error_sent",
                                    at |-> at, exc |-> exc]]
    /\ IF gone[s] THEN sent' = sent ELSE Emit(s, error_frame(msg))

\* The handler is suspended in receive_text().
AwaitingMetadataPipelined(s) == pc[s] \in {"recv_text", "sleep"}
AwaitingMetadata(s) == pc[s] = "recv_text"

\* 1. receive_text() returns a message, json.loads() parses it.
ReceiveText(s) ==
    /\ AwaitingMetadata(s)
    /\ inbox[s] # <<>>
    /\ LoopFree(s)
    /\ LET msg == Head(inbox[s])
           m == json_loads(msg.text)
       IN  /\ waited' = [waited EXCEPT ![s] = 0]
           /\ overlap' = Served(s, "recv_text")
           /\ CASE msg.kind = "disconnect" ->
                     /\ OnDisconnect(s, "receive_text")
                     /\ UNCHANGED cycles
                [] msg.kind = "bytes" ->
                     \* message["text"]: the frame carries no text
                     /\ OnException(s, "receive_text", "KeyError", "'text'")
                     /\ UNCHANGED cycles
                [] msg.kind = "text" /\ ~m.ok ->
                     /\ OnException(s, "json_loads", "JSONDecodeError", m.err)
                     /\ cycles' = [cycles EXCEPT ![s] = @ + 1]
                [] msg.kind = "text" /\ m.ok ->
                     /\ data_str' = [data_str EXCEPT ![s] = msg.text]
                     /\ metadata' = [metadata EXCEPT ![s] = m]
                     /\ cycles' = [cycles EXCEPT ![s] = @ + 1]
                     /\ pc' = [pc EXCEPT ![s] = "recv_bytes"]
                     /\ inbox' = [inbox EXCEPT ![s] = Tail(@)]
                     /\ UNCHANGED <<sent, exit, gone, audio_bytes>>
    /\ UNCHANGED <<models, started, health, timers, nframes>>

\* 2. receive_bytes() returns a message; 3. asyncio.sleep(0.5) arms a timer.
ReceiveBytes(s) ==
    /\ pc[s] = "recv_bytes"
    /\ inbox[s] # <<>>
    /\ LoopFree(s)
    /\ LET msg == Head(inbox[s])
       IN  CASE msg.kind = "disconnect" ->
                  /\ OnDisconnect(s, "receive_bytes")
                  /\ overlap' = Served(s, "recv_bytes")
                  /\ UNCHANGED timers
             [] msg.kind = "text" ->
                  \* message["bytes"]: the frame carries no bytes
                  /\ OnException(s, "receive_bytes", "KeyError", "'bytes'")
                  /\ overlap' = Served(s, "recv_bytes")
                  /\ UNCHANGED timers
             [] msg.kind = "bytes" ->
                  /\ audio_bytes' = [audio_bytes EXCEPT ![s] = msg.nbytes]
                  /\ timers' = Append(timers, s)
                  /\ pc' = [pc EXCEPT ![s] = "sleep"]
                  /\ inbox' = [inbox EXCEPT ![s] = Tail(@)]
                  /\ overlap' = [Served(s, "recv_bytes") EXCEPT ![s] = {}]
                  /\ UNCHANGED <<sent, exit, gone, data_str, metadata>>
    /\ UNCHANGED <<models, started, health, cycles, nframes, waited>>

\* What send_json() of the response can raise once the peer has closed: the
\* server stack in use decides whether the failed send surfaces as
\* WebSocketDisconnect or as another exception.
SendFailures == {"WebSocketDisconnect", "RuntimeError"}

\* asyncio.sleep(0.5) returns (equal delays: the timers fire in the order they
\* were armed), the response is built and send_json() puts it on the wire.
Respond(s) ==
    /\ pc[s] = "sleep"
    /\ timers # <<>> /\ Head(timers) = s
    /\ LoopFree(s)
    /\ timers' = Tail(timers)
    /\ overlap' = [Served(s, "respond") EXCEPT ![s] = {}]
    /\ IF metadata[s].type # "dict"
       THEN \* metadata.get: AttributeError
            OnException(s, "metadata_get", "AttributeError",
                        "'" \o metadata[s].type \o "' object has no attribute 'get'")
       ELSE IF gone[s]
       THEN \E f \in SendFailures :
                IF f = "WebSocketDisconnect"
                THEN OnDisconnect(s, "send_json")
                ELSE OnException(s, "send_json", f, "Unexpected ASGI message 'websocket.send'")
       ELSE /\ Emit(s, response(metadata[s], audio_bytes[s]))
            /\ pc' = [pc EXCEPT ![s] = "recv_text"]
            /\ UNCHANGED <<inbox, exit, gone, data_str, metadata, audio_bytes>>
    /\ UNCHANGED <<models, started, health, cycles, nframes, waited>>

\* ------------------------------------------------------------- environment

\* A client puts a text frame on the wire.
ClientSendText(s, p) ==
    /\ pc[s] \notin {"idle", "done"}
    /\ ~gone[s]
    /\ nframes < MaxFrames
    /\ Len(inbox[s]) < MaxInbox
    /\ inbox' = [inbox EXCEPT ![s] = Append(@, TextFrame(p))]
    /\ nframes' = nframes + 1
    /\ UNCHANGED <<models, started, health, pc, gone, data_str, metadata, audio_bytes,
                   sent, exit, timers, cycles, waited, overlap>>

\* A client puts a binary frame on the wire.
ClientSendBytes(s, n) ==
    /\ pc[s] \notin {"idle", "done"}
    /\ ~gone[s]
    /\ nframes < MaxFrames
    /\ Len(inbox[s]) < MaxInbox
    /\ inbox' = [inbox EXCEPT ![s] = Append(@, BytesFrame(n))]
    /\ nframes' = nframes + 1
    /\ UNCHANGED <<models, started, health, pc, gone, data_str, metadata, audio_bytes,
                   sent, exit, timers, cycles, waited, overlap>>

\* A client closes its connection: the transport queues websocket.disconnect.
ClientDisconnect(s) ==
    /\ pc[s] \notin {"idle", "done"}
    /\ ~gone[s]
    /\ gone' = [gone EXCEPT ![s] = TRUE]
    /\ inbox' = [inbox EXCEPT ![s] = Append(@, DisconnectMsg)]
    /\ overlap' = [overlap EXCEPT ![s] = IF pc[s] = "sleep" THEN @ \cup {"disconnect"}
                                                            ELSE @]
    /\ UNCHANGED <<models, started, health, pc, data_str, metadata, audio_bytes, sent,
                   exit, timers, cycles, nframes, waited>>

\* Time passes while receive_text() has nothing to return: the call carries no
\* timeout, so the handler just stays suspended.
Tick(s) ==
    /\ pc[s] = "recv_text"
    /\ inbox[s] = <<>>
    /\ waited[s] < MaxWait
    /\ waited' = [waited EXCEPT ![s] = @ + 1]
    /\ UNCHANGED <<models, started, health, pc, inbox, gone, data_str, metadata,
                   audio_bytes, sent, exit, timers, cycles, nframes, overlap>>

Next ==
    \/ Startup
    \/ HealthCheck
    \/ \E s \in Sessions : Accept(s)
    \/ \E s \in Sessions : ReceiveText(s)
    \/ \E s \in Sessions : ReceiveBytes(s)
    \/ \E s \in Sessions : Respond(s)
    \/ \E s \in Sessions, p \in TextPayloads : ClientSendText(s, p)
    \/ \E s \in Sessions, n \in AudioLens : ClientSendBytes(s, n)
    \/ \E s \in Sessions : ClientDisconnect(s)

Spec == Init /\ [][Next]_vars

\* The same program with the clock of the metadata wait followed.
NextTimed ==
    \/ Next
    \/ \E s \in Sessions : Tick(s)

SpecTimed == Init /\ [][NextTimed]_vars

\* ------------------------------------------------------------------ claims

\* What the client submitted, read off the text it sent.
ObjectPayloads == {"{\"speaker\":\"alice\"}", "{}"}
MalformedPayloads == {"{oops"}
SubmittedSpeaker(p) == IF p = "{\"speaker\":\"alice\"}" THEN "alice" ELSE "unknown"

\* The step finishes the processing of session s's current cycle.
FinishesProcessing(s) == pc[s] = "sleep" /\ pc'[s] # "sleep"

\* An engine is loaded in the registry.
EngineLoaded == \E k \in DOMAIN models : models[k] # None

\* The handler of s is in its loop.
Open(s) == pc[s] \in {"recv_text", "recv_bytes", "sleep"}

\* C1: when the processing of a cycle with object metadata and an audio frame
\* finishes on a connection that is still open, exactly one frame is sent for
\* it: a success frame whose finalText is non-empty and whose speaker is the
\* one the metadata of that cycle submitted, "unknown" when it submitted none.
C1_OneSuccessFramePerCycle ==
    [][\A s \in Sessions :
        (FinishesProcessing(s) /\ data_str[s] \in ObjectPayloads /\ ~gone[s]) =>
            /\ Len(sent'[s]) = Len(sent[s]) + 1
            /\ SubSeq(sent'[s], 1, Len(sent[s])) = sent[s]
            /\ LET f == sent'[s][Len(sent'[s])]
               IN  /\ f.type \in {"stt_result", "ensemble_result"}
                   /\ f.data.finalText # ""
                   /\ f.data.speaker = SubmittedSpeaker(data_str[s])]_vars

\* C1 witness: one session answered a cycle that named its speaker and a
\* cycle that named none.
C1_Witness ==
    \E s \in Sessions :
        /\ Len(sent[s]) = 2
        /\ sent[s][1].type = "ensemble_result" /\ sent[s][1].data.speaker = "alice"
        /\ sent[s][2].type = "ensemble_result" /\ sent[s][2].data.speaker = "unknown"

\* C2 (as claimed): a text frame that does not parse, received as metadata, is
\* answered with an error frame and the handler stays in its loop, waiting for
\* the next metadata frame.
C2_MalformedMetadataContinues ==
    [][\A s \in Sessions :
        (/\ pc[s] = "recv_text" /\ inbox[s] # <<>>
         /\ Head(inbox[s]).kind = "text" /\ Head(inbox[s]).text \in MalformedPayloads
         /\ cycles'[s] = cycles[s] + 1) =>
            /\ Len(sent'[s]) = Len(sent[s]) + 1
            /\ sent'[s][Len(sent'[s])].type = "error"
            /\ pc'[s] = "recv_text"]_vars

C4_HalfDuplex ==
    \A s \in Sessions :
        /\ Open(s) /\ pc[s] = "recv_text" => cycles[s] = Len(sent[s])
        /\ Open(s) /\ pc[s] # "recv_text" => cycles[s] = Len(sent[s]) + 1
        /\ Cardinality({i \in 1..Len(timers) : timers[i] = s})
               = IF pc[s] = "sleep" THEN 1 ELSE 0

\* C4 witness: the client has already put the next frame on the wire while the
\* session is processing; the handler has not received it.
C4_Witness ==
    \E s \in Sessions :
        pc[s] = "sleep" /\ cycles[s] = 1 /\ inbox[s] # <<>> /\ Head(inbox[s]).kind = "text"

\* C5: a disconnect the handler meets in receive_text() or receive_bytes()
\* ends its loop through the disconnect handler: no frame is sent and no error
\* frame is attempted; and a handler that has returned receives and sends
\* nothing more.
C5_DisconnectEndsCleanly ==
    /\ [][\A s \in Sessions :
            (/\ pc[s] \in {"recv_text", "recv_bytes"} /\ inbox[s] # <<>>
             /\ Head(inbox[s]).kind = "disconnect" /\ pc'[s] # pc[s]) =>
                /\ pc'[s] = "done"
                /\ exit'[s].how = "disconnect"
                /\ sent'[s] = sent[s]]_vars
    /\ [][\A s \in Sessions :
            pc[s] = "done" =>
                /\ pc'[s] = "done" /\ sent'[s] = sent[s] /\ cycles'[s] = cycles[s]
                /\ exit'[s] = exit[s] /\ inbox'[s] = <<>>]_vars

\* C5 witness: a session was closed by a disconnect that arrived after its
\* metadata and before its audio.
C5_Witness ==
    \E s \in Sessions :
        /\ pc[s] = "done" /\ exit[s].how = "disconnect" /\ exit[s].at = "receive_bytes"
        /\ cycles[s] = 1 /\ sent[s] = <<>>

\* C6 (as claimed, on the cycles whose metadata is an object): when the client
\* disconnects while the session is processing, the processing step ends the
\* loop through the disconnect handler: the result is not sent and no error
\* frame is attempted.
C6_DisconnectWhileProcessing ==
    [][\A s \in Sessions :
        (FinishesProcessing(s) /\ "disconnect" \in overlap[s]
         /\ data_str[s] \in ObjectPayloads) =>
            /\ pc'[s] = "done"
            /\ exit'[s].how = "disconnect"
            /\ sent'[s] = sent[s]]_vars

\* C7 (as claimed): the wait for a metadata frame is bounded: it ends, by a
\* frame, a disconnect or the expiry that re-arms it, before MaxWait ticks
\* have passed.
C7_MetadataWaitBounded == \A s \in Sessions : waited[s] < MaxWait

\* C8: while a session a is processing, the loop serves the others: a health
\* check can be answered, and every other session b can take the step its own
\* state calls for (accept, receive a waiting frame, respond when its timer is
\* the next to fire); and as long as a stays in its processing step nothing
\* of a's cycle changes.
C8_ProcessingDoesNotBlock ==
    /\ [](\A a \in Sessions :
            pc[a] = "sleep" =>
                /\ ENABLED HealthCheck
                /\ \A b \in Sessions \ {a} :
                    /\ pc[b] = "idle" => ENABLED Accept(b)
                    /\ pc[b] = "recv_text" /\ inbox[b] # <<>> => ENABLED ReceiveText(b)
                    /\ pc[b] = "recv_bytes" /\ inbox[b] # <<>> => ENABLED ReceiveBytes(b)
                    /\ pc[b] = "sleep" /\ Head(timers) = b => ENABLED Respond(b))
    /\ [][\A a \in Sessions :
            pc[a] = "sleep" /\ pc'[a] = "sleep" =>
                /\ sent'[a] = sent[a] /\ cycles'[a] = cycles[a]
                /\ metadata'[a] = metadata[a] /\ audio_bytes'[a] = audio_bytes[a]
                /\ exit'[a] = exit[a]]_vars

\* C8 witness: while one session was processing, another received its
\* metadata and its audio and a health check was answered.
C8_Witness ==
    \E a \in Sessions :
        pc[a] = "sleep" /\ {"recv_text", "recv_bytes", "health"} \subseteq overlap[a]

\* C9 (as claimed): processing is serialized across sessions: at most one
\* session is in its processing step at any time.
C9_ProcessingSerialized == Cardinality({s \in Sessions : pc[s] = "sleep"}) <= 1

\* C10 (as claimed): a session has sent no more frames than it has received
\* metadata text frames.
C10_FramesWithinTextFrames == \A s \in Sessions : Len(sent[s]) <= cycles[s]

\* A frame of the wrong kind received where metadata was expected starts no
\* cycle, and is answered with the error frame that ends the session.
AnsweredNonText(s) ==
    exit[s].how = "error_sent" /\ exit[s].at = "receive_text" /\ exit[s].exc = "KeyError"

\* C10 (amended): a session has sent no more frames than it has received
\* frames where metadata was expected: one per metadata text frame at most,
\* and one error frame for a non-text frame received in that place, which ends
\* the session. No step sends two frames, and a handler that is back waiting
\* for metadata has sent exactly one frame per cycle.
C10_FramesWithinCycles ==
    /\ [](\A s \in Sessions :
            /\ Len(sent[s]) <= cycles[s] + (IF AnsweredNonText(s) THEN 1 ELSE 0)
            /\ pc[s] = "recv_text" => Len(sent[s]) = cycles[s])
    /\ [][\A s \in Sessions : Len(sent'[s]) <= Len(sent[s]) + 1]_vars

\* C10 witness: a session has been through two cycles and sent two frames.
C10_Witness == \E s \in Sessions : cycles[s] = 2 /\ Len(sent[s]) = 2

\* The error frames among the frames a session was sent.
ErrorFrames(s) == {i \in 1..Len(sent[s]) : sent[s][i].type = "error"}

\* C11: a failure other than a disconnect, raised inside the loop, is caught
\* by the generic handler: the handler has returned, it attempted one error
\* frame (sent as the last frame when the peer was there, swallowed without a
\* frame when the send failed), and no exit of the handler is an escaped
\* exception.
C11_FailureCaughtOneErrorFrame ==
    /\ [](\A s \in Sessions :
            /\ exit[s].how \in {"running", "disconnect", "error_sent", "error_swallowed"}
            /\ exit[s].how # "running" => pc[s] = "done"
            /\ exit[s].how = "error_sent" =>
                  /\ Cardinality(ErrorFrames(s)) = 1
                  /\ ErrorFrames(s) = {Len(sent[s])}
            /\ exit[s].how = "error_swallowed" => ErrorFrames(s) = {})
    /\ [][\A s \in Sessions :
            exit[s].how = "running" /\ exit'[s].how \in {"error_sent", "error_swallowed"} =>
                /\ pc'[s] = "done"
                /\ exit'[s].exc \notin {"", "WebSocketDisconnect"}
                /\ Len(sent'[s]) = Len(sent[s]) + (IF gone[s] THEN 0 ELSE 1)]_vars

\* C11 witness: one session ended with its error frame delivered, the other
\* with the failure of the error send swallowed.
C11_Witness ==
    \E a, b \in Sessions :
        /\ exit[a].how = "error_sent" /\ pc[a] = "done"
        /\ exit[b].how = "error_swallowed" /\ pc[b] = "done"

\* C12: the step in which session a ends, by a disconnect or by an error,
\* leaves the registry and every other session's state as they were, and
\* once a has ended every other session b can still take the step its own
\* state calls for.
C12_SessionEndIsolated ==
    /\ [][\A a \in Sessions :
            pc[a] # "done" /\ pc'[a] = "done" =>
                /\ models' = models
                /\ \A b \in Sessions \ {a} :
                    /\ pc'[b] = pc[b] /\ inbox'[b] = inbox[b] /\ gone'[b] = gone[b]
                    /\ metadata'[b] = metadata[b] /\ audio_bytes'[b] = audio_bytes[b]
                    /\ data_str'[b] = data_str[b] /\ sent'[b] = sent[b]
                    /\ exit'[b] = exit[b] /\ cycles'[b] = cycles[b]
                    /\ SelectSeq(timers', LAMBDA t : t = b) =
                           SelectSeq(timers, LAMBDA t : t = b)]_vars
    /\ [](\A a \in Sessions :
            pc[a] = "done" =>
                \A b \in Sessions \ {a} :
                    /\ pc[b] = "idle" => ENABLED Accept(b)
                    /\ pc[b] = "recv_text" /\ inbox[b] # <<>> => ENABLED ReceiveText(b)
                    /\ pc[b] = "recv_bytes" /\ inbox[b] # <<>> => ENABLED ReceiveBytes(b)
                    /\ pc[b] = "sleep" /\ Head(timers) = b => ENABLED Respond(b))

\* C12 witness: one session ended on an error while the other, still open,
\* has completed a cycle and holds the metadata of its next one.
C12_Witness ==
    \E a, b \in Sessions :
        /\ pc[a] = "done" /\ exit[a].how = "error_sent"
        /\ pc[b] = "recv_bytes" /\ Len(sent[b]) = 1
        /\ sent[b][1].type = "ensemble_result"
        /\ ~EngineLoaded

\* The placeholder text the reference policy prescribes for an audio frame of
\* n bytes when no engine is available, written out for the lengths in use.
Placeholder(n) ==
    CASE n = 0 -> "Server processed 0 bytes of audio."
      [] n = 1000 -> "Server processed 1000 bytes of audio."

\* C14: with no engine available, the final text of a success frame is the
\* placeholder naming the byte length of the audio frame the handler took
\* from the connection in that same cycle.
C14_FinalTextNamesThisCyclesAudio ==
    /\ [][\A s \in Sessions :
            pc[s] = "recv_bytes" /\ pc'[s] = "sleep" =>
                /\ Head(inbox[s]).kind = "bytes"
                /\ audio_bytes'[s] = Head(inbox[s]).nbytes]_vars
    /\ [][\A s \in Sessions :
            FinishesProcessing(s) /\ Len(sent'[s]) = Len(sent[s]) + 1 =>
                LET f == sent'[s][Len(sent'[s])] IN
                    f.type # "error" =>
                        /\ ~EngineLoaded
                        /\ f.data.finalText = Placeholder(audio_bytes[s])]_vars

\* C14 witness: one session completed two cycles whose audio frames differ
\* in length, and each frame names its own cycle's length.
C14_Witness ==
    \E s \in Sessions :
        /\ Len(sent[s]) = 2
        /\ sent[s][1].type = "ensemble_result" /\ sent[s][2].type = "ensemble_result"
        /\ sent[s][1].data.finalText = "Server processed 1000 bytes of audio."
        /\ sent[s][2].data.finalText = "Server processed 0 bytes of audio."

\* C15: whenever GET /health has answered, its status is "healthy" exactly
\* when at least one entry of the registry holds a loaded engine.
C15_HealthyIffEngineLoaded ==
    health # NoAnswer => (health.status = "healthy" <=> EngineLoaded)

\* C17: every frame a session was sent is well-typed: its type is one of
\* "stt_result", "ensemble_result" and "error"; a success frame carries a data
\* object with at least finalText and speaker; an error frame carries a
\* message, and when it carries a code the code is a string.
C17_FramesWellTyped ==
    \A s \in Sessions : \A i \in 1..Len(sent[s]) :
        LET f == sent[s][i] IN
            /\ "type" \in DOMAIN f
            /\ f.type \in {"stt_result", "ensemble_result", "error"}
            /\ f.type \in {"stt_result", "ensemble_result"} =>
                  /\ "data" \in DOMAIN f
                  /\ {"finalText", "speaker"} \subseteq DOMAIN f.data
                  /\ f.data.finalText \in STRING
            /\ f.type = "error" =>
                  /\ "message" \in DOMAIN f /\ f.message \in STRING
                  /\ DOMAIN f \subseteq {"type", "code", "message"}

\* C17 witness: one session was sent a success frame and the other an error
\* frame.
C17_Witness ==
    \E a, b \in Sessions :
        /\ Len(sent[a]) >= 1 /\ sent[a][1].type = "ensemble_result"
        /\ Len(sent[b]) >= 1 /\ sent[b][Len(sent[b])].type = "error"

\* C18: the registry is written during startup only: no step taken after
\* startup changes it, and in particular no step of a session and no answer
\* of GET /health does.
C18_RegistryWrittenAtStartupOnly ==
    /\ [][started => models' = models]_vars
    /\ [][(\E s \in Sessions : pc'[s] # pc[s] \/ sent'[s] # sent[s]) =>
              models' = models]_vars
    /\ [][health' # health => models' = models]_vars

\* C18 witness: after startup a health check was answered, one session
\* completed a cycle and the other ended on an error, and the registry is as
\* startup left it.
C18_Witness ==
    /\ started /\ health # NoAnswer
    /\ models = [sensevoice |-> None, faster_whisper |-> None, qwen_asr |-> None]
    /\ \E a, b \in Sessions :
        /\ Len(sent[a]) >= 1 /\ sent[a][1].type = "ensemble_result"
        /\ pc[b] = "done" /\ exit[b].how = "error_sent"

\* C19: an error frame is terminal for its session: at most one is among the
\* frames the session was sent, it is the last of them, the handler has
\* returned when it is there; and once the error frame was sent or its send
\* was attempted, the session receives nothing and is sent nothing.
C19_ErrorFrameTerminal ==
    /\ [](\A s \in Sessions :
            /\ Cardinality(ErrorFrames(s)) <= 1
            /\ ErrorFrames(s) # {} =>
                  /\ ErrorFrames(s) = {Len(sent[s])}
                  /\ pc[s] = "done"
                  /\ exit[s].how = "error_sent")
    /\ [][\A s \in Sessions :
            exit[s].how \in {"error_sent", "error_swallowed"} =>
                /\ sent'[s] = sent[s] /\ pc'[s] = "done" /\ exit'[s] = exit[s]
                /\ cycles'[s] = cycles[s] /\ inbox'[s] = <<>>
                /\ metadata'[s] = metadata[s] /\ audio_bytes'[s] = audio_bytes[s]]_vars

\* C19 witness: a session completed a cycle, then failed on its next frame:
\* the error frame is its second and last frame.
C19_Witness ==
    \E s \in Sessions :
        /\ Len(sent[s]) = 2
        /\ sent[s][1].type = "ensemble_result" /\ sent[s][2].type = "error"
        /\ pc[s] = "done"

\* The payloads that are valid JSON and not an object.
NonObjectPayloads == {"[]"}

\* C20: metadata that is valid JSON and not an object is accepted at the
\* metadata step: no frame is sent and the handler waits for the audio
\* frame, consumes it and runs the processing delay; only then, with the peer
\* still there, the cycle fails reading the speaker: one error frame with
\* code "processing_error" is sent, no success frame, and the handler returns.
C20_NonObjectMetadataFailsLate ==
    /\ [][\A s \in Sessions :
            (/\ pc[s] = "recv_text" /\ pc'[s] # "recv_text" /\ inbox[s] # <<>>
             /\ Head(inbox[s]).kind = "text"
             /\ Head(inbox[s]).text \in NonObjectPayloads) =>
                /\ pc'[s] = "recv_bytes" /\ sent'[s] = sent[s]
                /\ exit'[s] = Running]_vars
    /\ [][\A s \in Sessions :
            (/\ pc[s] = "recv_bytes" /\ pc'[s] # "recv_bytes" /\ inbox[s] # <<>>
             /\ Head(inbox[s]).kind = "bytes"
             /\ data_str[s] \in NonObjectPayloads) =>
                /\ pc'[s] = "sleep" /\ sent'[s] = sent[s]
                /\ inbox'[s] = Tail(inbox[s])]_vars
    /\ [][\A s \in Sessions :
            FinishesProcessing(s) /\ data_str[s] \in NonObjectPayloads /\ ~gone[s] =>
                /\ pc'[s] = "done"
                /\ sent'[s] = Append(sent[s], error_frame("'list' object has no attribute 'get'"))
                /\ sent'[s][Len(sent'[s])].code = "processing_error"
                /\ exit'[s] = [how |-> "error_sent", at |-> "metadata_get",
                               exc |-> "AttributeError"]]_vars

\* C20 witness: a session whose only metadata was a JSON array went through
\* the audio frame and the delay and ended with the error frame as its only
\* frame.
C20_Witness ==
    \E s \in Sessions :
        /\ pc[s] = "done"
        /\ exit[s] = [how |-> "error_sent", at |-> "metadata_get", exc |-> "AttributeError"]
        /\ Len(sent[s]) = 1 /\ sent[s][1].type = "error"
        /\ sent[s][1].code = "processing_error"

====
